---- MODULE Spec2Model ----
(***************************************************************************)
(* Model of scripts/extract_mitre_data.py: the fetch of a STIX bundle, the  *)
(* extraction of tactics, assets, data components, techniques and          *)
(* detection strategies (with nested analytics) from it, and the write of  *)
(* the generated module by main.                                           *)
(*                                                                         *)
(* Python strings that the code inspects or orders (identifiers, external  *)
(* codes, phase names) are sequences of code points, so that startswith,   *)
(* isdigit and the lexicographic order of sorted() are computed as Python  *)
(* computes them.  Strings that are only compared for equality (type,      *)
(* relationship_type, domain, source_name, kill_chain_name) are TLA+       *)
(* strings.  None is the one-element sequence <<0>>, which is no string of *)
(* the model.  Python dicts are sequences of [k, v] pairs in insertion     *)
(* order; list indices are 1-based here and 0-based in the code.           *)
(***************************************************************************)
EXTENDS Integers, Sequences, FiniteSets, Bags, TLC

\* ---------------------------------------------------------------- strings
None == <<0>>

IsStr(x) == x # None

\* Python truthiness of an Optional[str]
Truthy(x) == x # None /\ x # <<>>

StartsWith(s, p) == Len(s) >= Len(p) /\ SubSeq(s, 1, Len(p)) = p

IsDigit(s) == Len(s) > 0 /\ \A i \in 1..Len(s) : s[i] \in 48..57

IsAlpha(s) == Len(s) > 0 /\ \A i \in 1..Len(s) : s[i] \in (65..90) \cup (97..122)

\* a < b in Python's order on str (lexicographic by code point)
StrLess(a, b) ==
  \E k \in 1..(Len(a) + 1) :
     /\ k <= Len(b)
     /\ \A j \in 1..(k - 1) : a[j] = b[j]
     /\ (k = Len(a) + 1 \/ a[k] < b[k])

StrLeq(a, b) == a = b \/ StrLess(a, b)

MinStr(S) == CHOOSE x \in S : \A y \in S : StrLeq(x, y)

RECURSIVE SortedSet(_)
\* sorted(set(...)) of strings
SortedSet(S) ==
  IF S = {} THEN <<>>
  ELSE LET m == MinStr(S) IN <<m>> \o SortedSet(S \ {m})

Range(s) == {s[i] : i \in 1..Len(s)}

\* ------------------------------------------------------------------ dicts
DictHas(d, key) == \E i \in 1..Len(d) : d[i].k = key

DictVal(d, key) == d[CHOOSE i \in 1..Len(d) : d[i].k = key].v

\* d[key] = val: an existing key keeps its position, a new key is appended
DictPut(d, key, val) ==
  IF DictHas(d, key)
  THEN [i \in 1..Len(d) |-> IF d[i].k = key THEN [k |-> key, v |-> val] ELSE d[i]]
  ELSE Append(d, [k |-> key, v |-> val])

\* ------------------------------------------------------ program constants
MITRE_DOMAIN == "enterprise-attack"

PrefDS == <<120, 45, 109, 105, 116, 114, 101, 45, 100, 101, 116, 101, 99, 116, 105, 111, 110, 45, 115, 116, 114, 97, 116, 101, 103, 121, 45, 45>>  \* "x-mitre-detection-strategy--"

PrefAP == <<97, 116, 116, 97, 99, 107, 45, 112, 97, 116, 116, 101, 114, 110, 45, 45>>  \* "attack-pattern--"

PrefDET == <<68, 69, 84>>  \* "DET"

PrefT == <<84>>  \* "T"

PrefAN == <<65, 78>>  \* "AN"

\* ----------------------------------------------------------------- filter
\* faulty variant: the revoked flag is not consulted
_is_active_IgnoreRevoked(o) == ~o.x_mitre_deprecated

_is_active(o) == ~o.revoked /\ ~o.x_mitre_deprecated

\* faulty variant: any domain tag is accepted
_in_domain_AnyDomain(o, domain) == Len(o.x_mitre_domains) > 0

_in_domain(o, domain) == \E i \in 1..Len(o.x_mitre_domains) : o.x_mitre_domains[i] = domain

RECURSIVE ExtIdFrom(_, _, _)
ExtIdFrom(refs, prefix, i) ==
  IF i > Len(refs) THEN None
  ELSE IF refs[i].source_name # "mitre-attack" THEN ExtIdFrom(refs, prefix, i + 1)
  ELSE IF ~IsStr(refs[i].external_id) THEN ExtIdFrom(refs, prefix, i + 1)
  ELSE IF ~StartsWith(refs[i].external_id, prefix) THEN ExtIdFrom(refs, prefix, i + 1)
  ELSE refs[i].external_id

_get_attack_external_id(o, prefix) == ExtIdFrom(o.external_references, prefix, 1)

\* ------------------------------------------------------------ object index
RECURSIVE IndexFrom(_, _, _)
IndexFrom(os, d, i) ==
  IF i > Len(os) THEN d
  ELSE IndexFrom(os, IF IsStr(os[i].id) THEN DictPut(d, os[i].id, os[i]) ELSE d, i + 1)

BuildIndex(os) == IndexFrom(os, <<>>, 1)

\* ------------------------------------------------------------- first pass
EmptyFirst ==
  [tactics |-> <<>>, assets |-> <<>>, data_components |-> <<>>, techniques |-> <<>>,
   technique_stix_to_tid |-> <<>>, tid_to_tech_index |-> <<>>, dc_stix_ids |-> {},
   analytics_by_stix |-> <<>>, ds_by_stix |-> <<>>]

Passes(o) == _is_active(o) /\ _in_domain(o, MITRE_DOMAIN)

ExtractTactic(st, o) ==
  [st EXCEPT !.tactics =
     Append(@, [id |-> IF Truthy(o.x_mitre_shortname) THEN o.x_mitre_shortname ELSE o.id])]

ExtractAsset(st, o) ==
  [st EXCEPT !.assets = Append(@, [id |-> o.id, domain |-> MITRE_DOMAIN])]

ExtractDataComponent(st, o) ==
  [st EXCEPT !.dc_stix_ids = IF IsStr(o.id) THEN @ \cup {o.id} ELSE @,
             !.data_components = Append(@, [id |-> o.id])]

RECURSIVE TechTactics(_, _)
\* phase names of the recognised kill chains, in list order, duplicates kept
TechTactics(kcp, i) ==
  IF i > Len(kcp) THEN <<>>
  ELSE IF kcp[i].kill_chain_name \in {"mitre-attack", "mitre-ics-attack"} /\ IsStr(kcp[i].phase_name)
       THEN <<kcp[i].phase_name>> \o TechTactics(kcp, i + 1)
       ELSE TechTactics(kcp, i + 1)

ExtractTechnique(st, o) ==
  LET tid == _get_attack_external_id(o, PrefT) IN
  IF ~Truthy(tid) THEN st
  ELSE [st EXCEPT
          !.technique_stix_to_tid = IF IsStr(o.id) THEN DictPut(@, o.id, tid) ELSE @,
          !.tid_to_tech_index = DictPut(@, tid, Len(st.techniques) + 1),
          !.techniques = Append(@, [id |-> tid,
                                    tactics |-> TechTactics(o.kill_chain_phases, 1),
                                    detectionStrategyIds |-> <<>>])]

ExtractAnalytic(st, o) ==
  [st EXCEPT !.analytics_by_stix = IF IsStr(o.id) THEN DictPut(@, o.id, o) ELSE @]

ExtractDetectionStrategy(st, o) ==
  [st EXCEPT !.ds_by_stix = IF IsStr(o.id) THEN DictPut(@, o.id, o) ELSE @]

\* body of the first loop over objs
FirstPassStep(st, o) ==
  IF ~Passes(o) THEN st
  ELSE CASE o.type = "x-mitre-tactic" -> ExtractTactic(st, o)
         [] o.type = "x-mitre-asset" -> ExtractAsset(st, o)
         [] o.type = "x-mitre-data-component" -> ExtractDataComponent(st, o)
         [] o.type = "attack-pattern" -> ExtractTechnique(st, o)
         [] o.type = "x-mitre-analytic" -> ExtractAnalytic(st, o)
         [] o.type = "x-mitre-detection-strategy" -> ExtractDetectionStrategy(st, o)
         [] OTHER -> st

RECURSIVE FirstPassFrom(_, _, _)
FirstPassFrom(os, st, i) ==
  IF i > Len(os) THEN st ELSE FirstPassFrom(os, FirstPassStep(st, os[i]), i + 1)

FirstPass(os) == FirstPassFrom(os, EmptyFirst, 1)

\* ------------------------------------------------------------ second pass
EmptySecond == [ds_to_tech_stix |-> <<>>, tech_tid_to_ds_ids |-> <<>>]

DsId(ds_obj, ds_stix) ==
  LET e == _get_attack_external_id(ds_obj, PrefDET) IN IF Truthy(e) THEN e ELSE ds_stix

\* faulty variant: the target's domain is not checked
EdgeRetained_AnyTarget(o, byid, fp) ==
  /\ o.type = "relationship"
  /\ o.relationship_type = "detects"
  /\ IsStr(o.source_ref) /\ IsStr(o.target_ref)
  /\ StartsWith(o.source_ref, PrefDS)
  /\ StartsWith(o.target_ref, PrefAP)
  /\ DictHas(fp.ds_by_stix, o.source_ref)
  /\ DictHas(byid, o.target_ref)
  /\ _in_domain(DictVal(fp.ds_by_stix, o.source_ref), MITRE_DOMAIN)

\* the edge is one the resolver keeps
EdgeRetained(o, byid, fp) ==
  /\ o.type = "relationship"
  /\ o.relationship_type = "detects"
  /\ IsStr(o.source_ref) /\ IsStr(o.target_ref)
  /\ StartsWith(o.source_ref, PrefDS)
  /\ StartsWith(o.target_ref, PrefAP)
  /\ DictHas(fp.ds_by_stix, o.source_ref)
  /\ DictHas(byid, o.target_ref)
  /\ _in_domain(DictVal(fp.ds_by_stix, o.source_ref), MITRE_DOMAIN)
  /\ _in_domain(DictVal(byid, o.target_ref), MITRE_DOMAIN)

SecondPassStep(sp, o, byid, fp) ==
  IF ~EdgeRetained(o, byid, fp) THEN sp
  ELSE LET src == o.source_ref
           tgt == o.target_ref
           old == IF DictHas(sp.ds_to_tech_stix, src) THEN DictVal(sp.ds_to_tech_stix, src) ELSE <<>>
           hasTid == DictHas(fp.technique_stix_to_tid, tgt)
           tid == DictVal(fp.technique_stix_to_tid, tgt)
           ds_id == DsId(DictVal(fp.ds_by_stix, src), src)
           ids == IF DictHas(sp.tech_tid_to_ds_ids, tid) THEN DictVal(sp.tech_tid_to_ds_ids, tid) ELSE {}
       IN [ds_to_tech_stix |-> DictPut(sp.ds_to_tech_stix, src, Append(old, tgt)),
           tech_tid_to_ds_ids |->
              IF hasTid THEN DictPut(sp.tech_tid_to_ds_ids, tid, ids \cup {ds_id})
              ELSE sp.tech_tid_to_ds_ids]

RECURSIVE SecondPassFrom(_, _, _, _, _)
SecondPassFrom(os, sp, byid, fp, i) ==
  IF i > Len(os) THEN sp
  ELSE SecondPassFrom(os, SecondPassStep(sp, os[i], byid, fp), byid, fp, i + 1)

SecondPass(os, byid, fp) == SecondPassFrom(os, EmptySecond, byid, fp, 1)

\* ------------------------------------------- detection-strategy assembly
\* faulty variant: the membership test against dc_stix_ids is missing
AnalyticDcs_NoFilter(lsr, dcids, i) == SelectSeq(lsr, LAMBDA dc : IsStr(dc))

RECURSIVE AnalyticDcs(_, _, _)
\* the raw list dcs of one analytic, before sorted(set(dcs))
AnalyticDcs(lsr, dcids, i) ==
  IF i > Len(lsr) THEN <<>>
  ELSE IF IsStr(lsr[i]) /\ lsr[i] \in dcids
       THEN <<lsr[i]>> \o AnalyticDcs(lsr, dcids, i + 1)
       ELSE AnalyticDcs(lsr, dcids, i + 1)

\* faulty variant: dcs is stored without sorted(set(dcs))
BuildAnalytic_Unsorted(a_obj, a_stix, dcids) ==
  LET e == _get_attack_external_id(a_obj, PrefAN) IN
  [id |-> IF Truthy(e) THEN e ELSE a_stix,
   dataComponents |-> AnalyticDcs(a_obj.x_mitre_log_source_references, dcids, 1)]

BuildAnalytic(a_obj, a_stix, dcids) ==
  LET e == _get_attack_external_id(a_obj, PrefAN) IN
  [id |-> IF Truthy(e) THEN e ELSE a_stix,
   dataComponents |-> SortedSet(Range(AnalyticDcs(a_obj.x_mitre_log_source_references, dcids, 1)))]

\* faulty variant: the loop leaves after the first component
AddAll_FirstOnly(dc_refs, dcs, i) == IF dcs = <<>> THEN dc_refs ELSE dc_refs \cup {dcs[1]}

RECURSIVE AddAll(_, _, _)
\* "for dc in dcs: dc_refs.add(dc)"
AddAll(dc_refs, dcs, i) ==
  IF i > Len(dcs) THEN dc_refs ELSE AddAll(dc_refs \cup {dcs[i]}, dcs, i + 1)

\* faulty variant: an analytic already nested in the strategy is not nested again
AnalyticStep_Dedup(acc, a_stix, fp) ==
  IF ~IsStr(a_stix) \/ ~DictHas(fp.analytics_by_stix, a_stix) THEN acc
  ELSE LET a == BuildAnalytic(DictVal(fp.analytics_by_stix, a_stix), a_stix, fp.dc_stix_ids)
       IN IF \E k \in 1..Len(acc.analytics) : acc.analytics[k].id = a.id THEN acc
          ELSE [analytics |-> Append(acc.analytics, a),
                dc_refs |-> acc.dc_refs \cup Range(a.dataComponents)]

\* body of the loop over x_mitre_analytic_refs; acc holds analytics and dc_refs
AnalyticStep(acc, a_stix, fp) ==
  IF ~IsStr(a_stix) \/ ~DictHas(fp.analytics_by_stix, a_stix) THEN acc
  ELSE LET a == BuildAnalytic(DictVal(fp.analytics_by_stix, a_stix), a_stix, fp.dc_stix_ids)
       IN [analytics |-> Append(acc.analytics, a),
           dc_refs |-> AddAll(acc.dc_refs, a.dataComponents, 1)]

RECURSIVE AnalyticsLoop(_, _, _, _)
AnalyticsLoop(refs, fp, acc, i) ==
  IF i > Len(refs) THEN acc ELSE AnalyticsLoop(refs, fp, AnalyticStep(acc, refs[i], fp), i + 1)

RECURSIVE TechIds(_, _, _)
\* the list tech_ids of one strategy
TechIds(stixs, fp, i) ==
  IF i > Len(stixs) THEN <<>>
  ELSE IF DictHas(fp.technique_stix_to_tid, stixs[i]) /\ Truthy(DictVal(fp.technique_stix_to_tid, stixs[i]))
       THEN <<DictVal(fp.technique_stix_to_tid, stixs[i])>> \o TechIds(stixs, fp, i + 1)
       ELSE TechIds(stixs, fp, i + 1)

\* faulty variant: only analytics count
EmitRule_AnalyticsOnly(tech_ids, analytics) == analytics # <<>>

\* faulty variant: every candidate is emitted
EmitRule_Always(tech_ids, analytics) == TRUE

\* "if tech_ids or analytics"
EmitRule(tech_ids, analytics) == tech_ids # <<>> \/ analytics # <<>>

\* faulty variant: techniques is tech_ids as collected, without sorted(set(tech_ids))
BuildStrategy_RawTechIds(ds_stix, ds_obj, fp, sp) ==
  LET linked == IF DictHas(sp.ds_to_tech_stix, ds_stix) THEN DictVal(sp.ds_to_tech_stix, ds_stix) ELSE <<>>
      tech_ids == TechIds(linked, fp, 1)
      built == AnalyticsLoop(ds_obj.x_mitre_analytic_refs, fp, [analytics |-> <<>>, dc_refs |-> {}], 1)
  IN IF EmitRule(tech_ids, built.analytics)
     THEN << [id |-> DsId(ds_obj, ds_stix),
              techniques |-> tech_ids,
              analytics |-> built.analytics,
              dataComponentRefs |-> SortedSet(built.dc_refs)] >>
     ELSE <<>>

BuildStrategy(ds_stix, ds_obj, fp, sp) ==
  LET linked == IF DictHas(sp.ds_to_tech_stix, ds_stix) THEN DictVal(sp.ds_to_tech_stix, ds_stix) ELSE <<>>
      tech_ids == TechIds(linked, fp, 1)
      built == AnalyticsLoop(ds_obj.x_mitre_analytic_refs, fp, [analytics |-> <<>>, dc_refs |-> {}], 1)
      analytics == built.analytics
  IN IF EmitRule(tech_ids, analytics)
     THEN << [id |-> DsId(ds_obj, ds_stix),
              techniques |-> SortedSet(Range(tech_ids)),
              analytics |-> analytics,
              dataComponentRefs |-> SortedSet(built.dc_refs)] >>
     ELSE <<>>

RECURSIVE BuildStrategiesFrom(_, _, _)
BuildStrategiesFrom(fp, sp, i) ==
  IF i > Len(fp.ds_by_stix) THEN <<>>
  ELSE BuildStrategy(fp.ds_by_stix[i].k, fp.ds_by_stix[i].v, fp, sp) \o BuildStrategiesFrom(fp, sp, i + 1)

BuildStrategies(fp, sp) == BuildStrategiesFrom(fp, sp, 1)

\* --------------------------------------------------------------- back-fill
RECURSIVE BackFillFrom(_, _, _, _)
BackFillFrom(techs, idx, links, i) ==
  IF i > Len(links) THEN techs
  ELSE IF ~DictHas(idx, links[i].k) THEN BackFillFrom(techs, idx, links, i + 1)
  ELSE BackFillFrom([techs EXCEPT ![DictVal(idx, links[i].k)].detectionStrategyIds = SortedSet(links[i].v)],
                    idx, links, i + 1)

BackFill(techs, idx, links) == BackFillFrom(techs, idx, links, 1)

\* ------------------------------------------------------------------- sort
keyfn(x) ==
  IF StartsWith(x.id, PrefDET) /\ IsDigit(SubSeq(x.id, Len(PrefDET) + 1, Len(x.id)))
  THEN [g |-> 0, s |-> x.id]
  ELSE [g |-> 1, s |-> x.id]

KeyLess(a, b) == a.g < b.g \/ (a.g = b.g /\ StrLess(a.s, b.s))

\* insert x after every element whose key is not greater (stable)
InsertSorted(s, x) ==
  LET n == Cardinality({i \in 1..Len(s) : ~KeyLess(keyfn(x), keyfn(s[i]))})
  IN SubSeq(s, 1, n) \o <<x>> \o SubSeq(s, n + 1, Len(s))

RECURSIVE SortFrom(_, _, _)
SortFrom(l, acc, i) ==
  IF i > Len(l) THEN acc ELSE SortFrom(l, InsertSorted(acc, l[i]), i + 1)

\* faulty variant: the list is returned as built
detectionStrategies_sort_Unsorted(ds_list) == ds_list

detectionStrategies_sort(ds_list) == SortFrom(ds_list, <<>>, 1)

\* ------------------------------------------------------------------ return
Assemble(fp, techs, dss) ==
  [assets |-> fp.assets,
   dataComponents |-> fp.data_components,
   detectionStrategies |-> detectionStrategies_sort(dss),
   techniques |-> techs,
   tactics |-> fp.tactics]

\* the whole of extract_mitre_data on the object list os
Extract(os) ==
  LET byid == BuildIndex(os)
      fp == FirstPass(os)
      sp == SecondPass(os, byid, fp)
      dss == BuildStrategies(fp, sp)
      techs == BackFill(fp.techniques, fp.tid_to_tech_index, sp.tech_tid_to_ds_ids)
  IN Assemble(fp, techs, dss)

\* ----------------------------------------------------- bundles (the input)
\* largest number of objects in the exhaustively enumerated bundles
MaxObjs == 2

\* longest bundle whose every permutation is compared
MaxPermLen == 3

StixId(prefix, n) == prefix \o <<48 + n>>

PrefTactic == <<120, 45, 109, 105, 116, 114, 101, 45, 116, 97, 99, 116, 105, 99, 45, 45>>

PrefAsset == <<120, 45, 109, 105, 116, 114, 101, 45, 97, 115, 115, 101, 116, 45, 45>>

PrefDC == <<120, 45, 109, 105, 116, 114, 101, 45, 100, 97, 116, 97, 45, 99, 111, 109, 112, 111, 110, 101, 110, 116, 45, 45>>

PrefAnalytic == <<120, 45, 109, 105, 116, 114, 101, 45, 97, 110, 97, 108, 121, 116, 105, 99, 45, 45>>

PrefRel == <<114, 101, 108, 97, 116, 105, 111, 110, 115, 104, 105, 112, 45, 45>>

persistence == <<112, 101, 114, 115, 105, 115, 116, 101, 110, 99, 101>>

initial_access == <<105, 110, 105, 116, 105, 97, 108, 45, 97, 99, 99, 101, 115, 115>>

impact == <<105, 109, 112, 97, 99, 116>>

T1001 == <<84, 49, 48, 48, 49>>

T1002 == <<84, 49, 48, 48, 50>>

T1004 == <<84, 49, 48, 48, 52>>

CAPEC1 == <<67, 65, 80, 69, 67, 45, 49>>

DET0005 == <<68, 69, 84, 48, 48, 48, 53>>

DET0001 == <<68, 69, 84, 48, 48, 48, 49>>

DET0009 == <<68, 69, 84, 48, 48, 48, 57>>

AN0002 == <<65, 78, 48, 48, 48, 50>>

\* a raw STIX object with every optional field absent
RawObject(type, id) ==
  [type |-> type, id |-> id, revoked |-> FALSE, x_mitre_deprecated |-> FALSE,
   x_mitre_domains |-> <<MITRE_DOMAIN>>, x_mitre_shortname |-> None,
   external_references |-> <<>>, kill_chain_phases |-> <<>>,
   x_mitre_analytic_refs |-> <<>>, x_mitre_log_source_references |-> <<>>,
   relationship_type |-> "", source_ref |-> None, target_ref |-> None]

Attack(code) == [source_name |-> "mitre-attack", external_id |-> code]

Phase(chain, name) == [kill_chain_name |-> chain, phase_name |-> name]

Tactic(n, short) == [RawObject("x-mitre-tactic", StixId(PrefTactic, n)) EXCEPT !.x_mitre_shortname = short]

Asset(n) == RawObject("x-mitre-asset", StixId(PrefAsset, n))

DataComponent(n) == RawObject("x-mitre-data-component", StixId(PrefDC, n))

AttackPattern(n, refs, kcp) ==
  [RawObject("attack-pattern", StixId(PrefAP, n)) EXCEPT !.external_references = refs, !.kill_chain_phases = kcp]

Analytic(n, refs, lsr) ==
  [RawObject("x-mitre-analytic", StixId(PrefAnalytic, n)) EXCEPT
     !.external_references = refs, !.x_mitre_log_source_references = lsr]

Strategy(n, refs, arefs) ==
  [RawObject("x-mitre-detection-strategy", StixId(PrefDS, n)) EXCEPT
     !.external_references = refs, !.x_mitre_analytic_refs = arefs]

Relationship(n, kind, src, tgt) ==
  [RawObject("relationship", StixId(PrefRel, n)) EXCEPT
     !.relationship_type = kind, !.source_ref = src, !.target_ref = tgt, !.x_mitre_domains = <<>>]

Revoked(o) == [o EXCEPT !.revoked = TRUE]

Deprecated(o) == [o EXCEPT !.x_mitre_deprecated = TRUE]

InDomains(o, ds) == [o EXCEPT !.x_mitre_domains = ds]

TA1 == Tactic(1, persistence)

TA2 == Tactic(2, None)

TA3 == Deprecated(Tactic(3, impact))

AS1 == Asset(1)

AS2 == InDomains(Asset(2), <<"ics-attack">>)

DC1 == DataComponent(1)

DC2 == DataComponent(2)

DC3 == Revoked(DataComponent(3))

AP1 ==
  AttackPattern(1, <<Attack(T1001)>>,
                <<Phase("mitre-attack", persistence), Phase("mitre-attack", initial_access),
                  Phase("mitre-attack", persistence), Phase("lockheed", impact)>>)

AP1r == Revoked(AP1)

AP2 ==
  AttackPattern(2, <<[source_name |-> "capec", external_id |-> CAPEC1], Attack(T1002)>>,
                <<Phase("mitre-attack", initial_access)>>)

AP3 == AttackPattern(3, <<Attack(T1001)>>, <<>>)

AP4 == InDomains(AttackPattern(4, <<Attack(T1004)>>, <<>>), <<>>)

AP5 == AttackPattern(5, <<Attack(CAPEC1)>>, <<>>)

AN1 == Analytic(1, <<Attack(AN0002)>>, <<DC1.id>>)

AN2 == Analytic(2, <<>>, <<DC2.id, DC1.id, DC2.id, DC3.id, None>>)

AN3 == Deprecated(Analytic(3, <<>>, <<DC1.id>>))

DS1 == Strategy(1, <<Attack(DET0005)>>, <<AN1.id>>)

DS2 == Strategy(2, <<>>, <<AN2.id, AN1.id, AN2.id, AN3.id, StixId(PrefAnalytic, 9)>>)

DS3 == Strategy(3, <<Attack(DET0001)>>, <<>>)

DS4 == InDomains(Strategy(4, <<Attack(DET0009)>>, <<AN1.id>>), <<"ics-attack">>)

R1 == Relationship(1, "detects", DS1.id, AP1.id)

R2 == Relationship(2, "detects", DS1.id, AP1.id)

R3 == Relationship(3, "detects", DS1.id, AP2.id)

R4 == Relationship(4, "detects", DS2.id, AP1.id)

R5 == Relationship(5, "detects", DS3.id, AP3.id)

R6 == Relationship(6, "detects", DC1.id, AP1.id)

R7 == Relationship(7, "uses", DS1.id, AP1.id)

R8 == Relationship(8, "detects", DS4.id, AP1.id)

R9 == Relationship(9, "detects", DS1.id, AP4.id)

Universe ==
  {TA1, TA2, TA3, AS1, AS2, DC1, DC2, DC3, AP1, AP1r, AP2, AP3, AP4, AP5,
   AN1, AN2, AN3, DS1, DS2, DS3, DS4, R1, R2, R3, R4, R5, R6, R7, R8, R9}

\* internal identifiers are unique within a bundle
UniqueIds(b) == \A i, j \in 1..Len(b) : i # j => b[i].id # b[j].id

Reverse(b) == [i \in 1..Len(b) |-> b[Len(b) + 1 - i]]

\* every bundle of at most MaxObjs objects
SmallBundles == {b \in UNION {[1..n -> Universe] : n \in 0..MaxObjs} : UniqueIds(b)}

\* one technique, one strategy, one analytic, one data component, one edge
ScenarioBundles ==
  LET S == {<<ap, ds, an, dc, r>> : ap \in {AP1, AP1r, AP3, AP4}, ds \in {DS1, DS2, DS3},
                                     an \in {AN1, AN2, AN3}, dc \in {DC1, DC3}, r \in {R1, R4, R6, R7}}
  IN S \cup {Reverse(b) : b \in S}

\* bundles with several techniques, strategies, analytics and edges
FullBundles ==
  LET S == {<<TA2, TA1, AS1, DC2, DC1, AP2, AP1, AN1, AN2, DS2, DS1, R3, R1, R2, R4>>,
            <<AP1, AP3, DS1, R1>>,
            <<AP3, AP1, DS3, DS1, R1, R5>>,
            <<DS2, DS1, AN2, AN1, DC1, DC2>>}
  IN S \cup {Reverse(b) : b \in S}

\* objects whose "id" key is absent: o.get("id") is None
WithoutId(o) == [o EXCEPT !.id = None]

TA0 == WithoutId(Tactic(0, None))

TA0s == WithoutId(Tactic(0, impact))

AS0 == WithoutId(Asset(0))

DC0 == WithoutId(DataComponent(0))

AN0 == WithoutId(Analytic(0, <<Attack(AN0002)>>, <<DC1.id>>))

DS0 == WithoutId(Strategy(0, <<Attack(DET0009)>>, <<AN1.id>>))

\* an object of a type no pass looks at
MD1 == InDomains(RawObject("marking-definition", StixId(PrefRel, 0)), <<>>)

DS1r == Revoked(DS1)

Incomplete == {TA0, TA0s, AS0, DC0, AN0, DS0, AP5}

Companions == {TA1, AS1, DC1, AN1, DS1, AP1, MD1}

\* one object without its identifier, alone or among complete objects
MissingIdBundles ==
  {<<x>> : x \in Incomplete}
    \cup {<<x, y>> : x \in Incomplete, y \in Companions}
    \cup {<<y, x, z>> : x \in Incomplete, y \in Companions, z \in Companions}

\* edges whose source or target fails one of the resolver's conditions
EdgeBundles ==
  LET S == {<<DS1, AP4, R9>>, <<DS1r, AP1, R1>>, <<DS4, AP1, R8>>, <<DS1, AP1r, R1>>,
            <<DC1, AP1, R6, DS1, R1>>, <<DS1, R1>>, <<AP1, R1>>, <<DS1, AP5, AP1, R1, R7>>}
  IN S \cup {Reverse(b) : b \in S}

Bundles == SmallBundles \cup ScenarioBundles \cup FullBundles \cup MissingIdBundles \cup EdgeBundles

\* ------------------------------------------------------------ bundle shape
\* a list element that is no JSON object (a string, a number, null)
Scalar == [json |-> "scalar"]

IsDict(e) == e # Scalar

\* the decoded response: {"objects": [...], ...}
DictBundle(os) == [kind |-> "dict", has_objects |-> TRUE, objects |-> os]

\* the decoded response: a bare list
ListBundle(os) == [kind |-> "list", has_objects |-> FALSE, objects |-> os]

\* a dict whose "objects" entry is absent or no list
DictWithoutObjects == [kind |-> "dict", has_objects |-> FALSE, objects |-> <<>>]

\* a JSON string, number or null
OtherJson == [kind |-> "other", has_objects |-> FALSE, objects |-> <<>>]

\* nothing fetched yet
NoBundle == [kind |-> "none", has_objects |-> FALSE, objects |-> <<>>]

\* faulty variant: an unrecognised document is read as an empty list
_stix_objects_Lenient(bundle) ==
  IF bundle.kind = "dict" /\ bundle.has_objects THEN [raised |-> "", objs |-> bundle.objects]
  ELSE IF bundle.kind = "list" THEN [raised |-> "", objs |-> SelectSeq(bundle.objects, IsDict)]
  ELSE [raised |-> "", objs |-> <<>>]

_stix_objects(bundle) ==
  IF bundle.kind = "dict" /\ bundle.has_objects THEN [raised |-> "", objs |-> bundle.objects]
  ELSE IF bundle.kind = "list" THEN [raised |-> "", objs |-> SelectSeq(bundle.objects, IsDict)]
  ELSE [raised |-> "ValueError", objs |-> <<>>]

\* lists holding elements that are no objects
MixedLists ==
  {<<Scalar>>, <<TA1, Scalar, AS1>>, <<Scalar, DS1, AP1, R1>>, <<AP1, AN1, DS1, R1, Scalar>>}

\* the documents the fetch may deliver
Responses ==
  {DictBundle(b) : b \in Bundles \cup MixedLists}
    \cup {ListBundle(b) : b \in MixedLists \cup FullBundles}
    \cup {DictWithoutObjects, OtherJson}

\* ------------------------------------------------------------------ state
VARIABLES pc, bundle, raised, artifact, objs, by_id, tactics, assets, data_components, techniques,
          detection_strategies, technique_stix_to_tid, tid_to_tech_index,
          dc_stix_ids, analytics_by_stix, ds_by_stix, ds_to_tech_stix,
          tech_tid_to_ds_ids, result

vars == <<pc, bundle, raised, artifact, objs, by_id, tactics, assets, data_components, techniques,
          detection_strategies, technique_stix_to_tid, tid_to_tech_index,
          dc_stix_ids, analytics_by_stix, ds_by_stix, ds_to_tech_stix,
          tech_tid_to_ds_ids, result>>

firstVars == <<tactics, assets, data_components, techniques, technique_stix_to_tid,
               tid_to_tech_index, dc_stix_ids, analytics_by_stix, ds_by_stix>>

\* the locals the first pass leaves behind
FP ==
  [tactics |-> tactics, assets |-> assets, data_components |-> data_components,
   techniques |-> techniques, technique_stix_to_tid |-> technique_stix_to_tid,
   tid_to_tech_index |-> tid_to_tech_index, dc_stix_ids |-> dc_stix_ids,
   analytics_by_stix |-> analytics_by_stix, ds_by_stix |-> ds_by_stix]

SP == [ds_to_tech_stix |-> ds_to_tech_stix, tech_tid_to_ds_ids |-> tech_tid_to_ds_ids]

NoResult ==
  [assets |-> <<>>, dataComponents |-> <<>>, detectionStrategies |-> <<>>,
   techniques |-> <<>>, tactics |-> <<>>]

\* the output file before the run
Previous == [written |-> FALSE, data |-> NoResult]

ioVars == <<bundle, raised, artifact>>

Init ==
  /\ pc = "fetch"
  /\ bundle = NoBundle
  /\ raised = ""
  /\ artifact = Previous
  /\ objs = <<>>
  /\ by_id = <<>>
  /\ tactics = <<>> /\ assets = <<>> /\ data_components = <<>> /\ techniques = <<>>
  /\ detection_strategies = <<>>
  /\ technique_stix_to_tid = <<>> /\ tid_to_tech_index = <<>> /\ dc_stix_ids = {}
  /\ analytics_by_stix = <<>> /\ ds_by_stix = <<>>
  /\ ds_to_tech_stix = <<>> /\ tech_tid_to_ds_ids = <<>>
  /\ result = NoResult

\* lines 115-117: requests.get, raise_for_status or json() raises, or the
\* decoded document is bound to bundle
Fetch ==
  /\ pc = "fetch"
  /\ \/ /\ raised' = "RequestException"
        /\ pc' = "error"
        /\ UNCHANGED bundle
     \/ /\ \E b \in Responses : bundle' = b
        /\ pc' = "parse"
        /\ UNCHANGED raised
  /\ UNCHANGED <<artifact, objs, by_id, firstVars, detection_strategies, ds_to_tech_stix,
                 tech_tid_to_ds_ids, result>>

\* line 119
StixObjects ==
  /\ pc = "parse"
  /\ LET r == _stix_objects(bundle) IN
       /\ raised' = r.raised
       /\ objs' = r.objs
       /\ pc' = IF r.raised = "" THEN "index" ELSE "error"
  /\ UNCHANGED <<bundle, artifact, by_id, firstVars, detection_strategies, ds_to_tech_stix,
                 tech_tid_to_ds_ids, result>>

\* lines 120-124; o.get of an element that is no dict raises AttributeError
IndexObjects ==
  /\ pc = "index"
  /\ IF \A i \in 1..Len(objs) : IsDict(objs[i])
     THEN /\ by_id' = BuildIndex(objs)
          /\ pc' = "first"
          /\ UNCHANGED raised
     ELSE /\ raised' = "AttributeError"
          /\ pc' = "error"
          /\ UNCHANGED by_id
  /\ UNCHANGED <<bundle, artifact, objs, firstVars, detection_strategies, ds_to_tech_stix,
                 tech_tid_to_ds_ids, result>>

\* lines 142-245
FirstPassAll ==
  /\ pc = "first"
  /\ LET fp == FirstPass(objs) IN
       /\ tactics' = fp.tactics
       /\ assets' = fp.assets
       /\ data_components' = fp.data_components
       /\ techniques' = fp.techniques
       /\ technique_stix_to_tid' = fp.technique_stix_to_tid
       /\ tid_to_tech_index' = fp.tid_to_tech_index
       /\ dc_stix_ids' = fp.dc_stix_ids
       /\ analytics_by_stix' = fp.analytics_by_stix
       /\ ds_by_stix' = fp.ds_by_stix
  /\ pc' = "second"
  /\ UNCHANGED <<ioVars, objs, by_id, detection_strategies, ds_to_tech_stix, tech_tid_to_ds_ids, result>>

\* lines 253-285
SecondPassAll ==
  /\ pc = "second"
  /\ LET sp == SecondPass(objs, by_id, FP) IN
       /\ ds_to_tech_stix' = sp.ds_to_tech_stix
       /\ tech_tid_to_ds_ids' = sp.tech_tid_to_ds_ids
  /\ pc' = "build"
  /\ UNCHANGED <<ioVars, objs, by_id, firstVars, detection_strategies, result>>

\* lines 290-353
BuildAll ==
  /\ pc = "build"
  /\ detection_strategies' = BuildStrategies(FP, SP)
  /\ pc' = "backfill"
  /\ UNCHANGED <<ioVars, objs, by_id, firstVars, ds_to_tech_stix, tech_tid_to_ds_ids, result>>

\* lines 356-360
BackFillAll ==
  /\ pc = "backfill"
  /\ techniques' = BackFill(techniques, tid_to_tech_index, tech_tid_to_ds_ids)
  /\ pc' = "return"
  /\ UNCHANGED <<ioVars, objs, by_id, tactics, assets, data_components, technique_stix_to_tid,
                 tid_to_tech_index, dc_stix_ids, analytics_by_stix, ds_by_stix,
                 detection_strategies, ds_to_tech_stix, tech_tid_to_ds_ids, result>>

\* lines 365-371
Return ==
  /\ pc = "return"
  /\ result' = Assemble(FP, techniques, detection_strategies)
  /\ pc' = "done"
  /\ UNCHANGED <<ioVars, objs, by_id, firstVars, detection_strategies, ds_to_tech_stix, tech_tid_to_ds_ids>>

\* main, lines 467-476: the generated module replaces the output file
WriteArtifact ==
  /\ pc = "done"
  /\ artifact' = [written |-> TRUE, data |-> result]
  /\ pc' = "exit"
  /\ UNCHANGED <<bundle, raised, objs, by_id, firstVars, detection_strategies, ds_to_tech_stix,
                 tech_tid_to_ds_ids, result>>

Next ==
  \/ Fetch
  \/ StixObjects
  \/ IndexObjects
  \/ FirstPassAll
  \/ SecondPassAll
  \/ BuildAll
  \/ BackFillAll
  \/ Return
  \/ WriteArtifact

Spec == Init /\ [][Next]_vars

Done == pc = "done"

\* ------------------------------------------------ vocabulary of the claims
\* active (neither flag set) and tagged with the selected domain
ActiveInDomain(o) ==
  /\ o.revoked = FALSE
  /\ o.x_mitre_deprecated = FALSE
  /\ MITRE_DOMAIN \in Range(o.x_mitre_domains)

\* the first mitre-attack external code of o that starts with prefix, or None
CodeOf(o, prefix) ==
  LET refs == o.external_references
      S == {i \in 1..Len(refs) : /\ refs[i].source_name = "mitre-attack"
                                 /\ refs[i].external_id # None
                                 /\ StartsWith(refs[i].external_id, prefix)}
  IN IF S = {} THEN None ELSE refs[CHOOSE i \in S : \A j \in S : i <= j].external_id

\* external code, falling back to the internal identifier
CodeOrId(o, prefix) == IF Truthy(CodeOf(o, prefix)) THEN CodeOf(o, prefix) ELSE o.id

\* the objects of the bundle of one category that survive the filter, in bundle order
Surviving(type) == SelectSeq(objs, LAMBDA o : o.type = type /\ ActiveInDomain(o))

SurvivingTechniques ==
  SelectSeq(objs, LAMBDA o : o.type = "attack-pattern" /\ ActiveInDomain(o) /\ Truthy(CodeOf(o, PrefT)))

Ids(recs) == [i \in 1..Len(recs) |-> recs[i].id]

StrictlySorted(l) == \A i \in 1..(Len(l) - 1) : StrLess(l[i], l[i + 1])

Emitted == result.detectionStrategies

\* ---------------------------------------------------------------------- C1
\* C1: referential closure.  In the returned data every code in a
\* technique's detectionStrategyIds is the id of an emitted detection strategy
\* whose techniques list contains the technique's id, and every code in a
\* strategy's techniques list is the id of an emitted technique.
C1_ReferentialClosure ==
  Done =>
    /\ \A i \in 1..Len(result.techniques) :
         \A c \in Range(result.techniques[i].detectionStrategyIds) :
           \E j \in 1..Len(Emitted) :
              /\ Emitted[j].id = c
              /\ result.techniques[i].id \in Range(Emitted[j].techniques)
    /\ \A j \in 1..Len(Emitted) :
         \A c \in Range(Emitted[j].techniques) :
           \E i \in 1..Len(result.techniques) : result.techniques[i].id = c

\* a technique is linked to a strategy that has no analytic
C1_Witness ==
  /\ Done
  /\ \E i \in 1..Len(result.techniques) : \E j \in 1..Len(Emitted) :
       /\ Emitted[j].id \in Range(result.techniques[i].detectionStrategyIds)
       /\ Emitted[j].analytics = <<>>

\* ---------------------------------------------------------------------- C2
RevokedScenario == Range(objs) = {AP1r, DS1, R1, AN1, DC1} /\ Len(objs) = 5

\* C2 as stated: in the revoked-technique scenario neither a technique T1001
\* nor a detection strategy DET0005 is in the output.
C2_Original ==
  (Done /\ RevokedScenario) =>
    /\ \A i \in 1..Len(result.techniques) : result.techniques[i].id # T1001
    /\ \A j \in 1..Len(Emitted) : Emitted[j].id # DET0005

\* C2 as amended: in the revoked-technique scenario no technique T1001 is
\* emitted and no strategy lists T1001, while DET0005 is still emitted, with
\* an empty techniques list, because it resolves to its analytic AN0002.
C2_RevokedScenario ==
  (Done /\ RevokedScenario) =>
    /\ result.techniques = <<>>
    /\ Len(Emitted) = 1
    /\ Emitted[1].id = DET0005
    /\ Emitted[1].techniques = <<>>
    /\ Ids(Emitted[1].analytics) = <<AN0002>>
    /\ Emitted[1].dataComponentRefs = <<DC1.id>>

C2_Witness == Done /\ RevokedScenario /\ ds_to_tech_stix # <<>>

\* ---------------------------------------------------------------------- C3
\* C3: filtering.  A tactic, asset, data component or T-coded attack pattern
\* yields a record exactly when it is active and in the selected domain (the
\* records of a collection are those of the surviving objects, one each), and
\* every entry of every cross-reference field is the identifier of an active,
\* in-domain object of the bundle of the category the field refers to.
C3_Filtering ==
  Done =>
    /\ Ids(result.tactics) =
         [i \in 1..Len(Surviving("x-mitre-tactic")) |->
            LET o == Surviving("x-mitre-tactic")[i]
            IN IF Truthy(o.x_mitre_shortname) THEN o.x_mitre_shortname ELSE o.id]
    /\ Ids(result.assets) = Ids(Surviving("x-mitre-asset"))
    /\ Ids(result.dataComponents) = Ids(Surviving("x-mitre-data-component"))
    /\ Ids(result.techniques) =
         [i \in 1..Len(SurvivingTechniques) |-> CodeOf(SurvivingTechniques[i], PrefT)]
    /\ \A i \in 1..Len(result.techniques) :
         \A c \in Range(result.techniques[i].detectionStrategyIds) :
           \E o \in Range(Surviving("x-mitre-detection-strategy")) : CodeOrId(o, PrefDET) = c
    /\ \A j \in 1..Len(Emitted) :
         /\ \A c \in Range(Emitted[j].techniques) :
              \E o \in Range(SurvivingTechniques) : CodeOf(o, PrefT) = c
         /\ \A c \in Range(Emitted[j].dataComponentRefs) :
              \E o \in Range(Surviving("x-mitre-data-component")) : o.id = c
         /\ \A k \in 1..Len(Emitted[j].analytics) :
              /\ \E o \in Range(Surviving("x-mitre-analytic")) :
                   CodeOrId(o, PrefAN) = Emitted[j].analytics[k].id
              /\ \A c \in Range(Emitted[j].analytics[k].dataComponents) :
                   \E o \in Range(Surviving("x-mitre-data-component")) : o.id = c

\* a strategy is emitted whose analytic names a revoked data component of the
\* bundle, and whose analytic list names a deprecated analytic of the bundle
C3_Witness ==
  /\ Done
  /\ {DS2, AN2, DC3} \subseteq Range(objs)
  /\ \E j \in 1..Len(Emitted) : Emitted[j].id = DS2.id /\ Emitted[j].analytics # <<>>

\* ---------------------------------------------------------------------- C4
\* C4: non-empty emission rule.  No emitted detection strategy has both an
\* empty techniques list and an empty analytics list, and the emitted
\* strategies are as many as the candidates that resolve to a technique or
\* an analytic: a candidate that resolves to neither is dropped.
C4_NonEmptyEmission ==
  /\ \A j \in 1..Len(detection_strategies) :
       detection_strategies[j].techniques # <<>> \/ detection_strategies[j].analytics # <<>>
  /\ Done =>
       /\ \A j \in 1..Len(Emitted) : Emitted[j].techniques # <<>> \/ Emitted[j].analytics # <<>>
       /\ Len(Emitted) =
            Cardinality({n \in 1..Len(ds_by_stix) :
               \/ \E r \in Range(objs) :
                    /\ r.type = "relationship" /\ r.relationship_type = "detects"
                    /\ r.source_ref = ds_by_stix[n].k
                    /\ DictHas(technique_stix_to_tid, r.target_ref)
               \/ \E a \in Range(ds_by_stix[n].v.x_mitre_analytic_refs) :
                    DictHas(analytics_by_stix, a)})

\* a candidate strategy was dropped
C4_Witness == Done /\ Len(ds_by_stix) > Len(Emitted)

\* ---------------------------------------------------------------------- C5
\* C5: aggregation.  The dataComponentRefs of every emitted strategy is
\* sorted, free of duplicates, and holds exactly the identifiers that occur
\* in the dataComponents list of some analytic nested in the strategy.
C5_Aggregation ==
  Done =>
    \A j \in 1..Len(Emitted) :
      /\ StrictlySorted(Emitted[j].dataComponentRefs)
      /\ Range(Emitted[j].dataComponentRefs) =
           UNION {Range(Emitted[j].analytics[k].dataComponents) : k \in 1..Len(Emitted[j].analytics)}

\* a strategy aggregates analytics whose component lists differ
C5_Witness ==
  /\ Done
  /\ \E j \in 1..Len(Emitted) :
       /\ Len(Emitted[j].dataComponentRefs) >= 2
       /\ \E k, l \in 1..Len(Emitted[j].analytics) :
            Emitted[j].analytics[k].dataComponents # Emitted[j].analytics[l].dataComponents

\* ---------------------------------------------------------------------- C6
\* C6: every identifier in an emitted strategy's dataComponentRefs and in a
\* nested analytic's dataComponents is the internal identifier of an active,
\* in-domain data component of the bundle; and an active, in-domain strategy
\* linked by a detects edge to an emitted technique is emitted with that
\* technique, whatever became of its analytics' component references.
C6_ComponentRefs ==
  Done =>
    /\ \A j \in 1..Len(Emitted) :
         /\ \A c \in Range(Emitted[j].dataComponentRefs) :
              \E o \in Range(objs) :
                 o.type = "x-mitre-data-component" /\ ActiveInDomain(o) /\ o.id = c
         /\ \A k \in 1..Len(Emitted[j].analytics) :
              \A c \in Range(Emitted[j].analytics[k].dataComponents) :
                \E o \in Range(objs) :
                   o.type = "x-mitre-data-component" /\ ActiveInDomain(o) /\ o.id = c
    /\ \A d \in Range(Surviving("x-mitre-detection-strategy")) :
         \A t \in Range(SurvivingTechniques) :
           (\E r \in Range(objs) : /\ r.type = "relationship" /\ r.relationship_type = "detects"
                                   /\ r.source_ref = d.id /\ r.target_ref = t.id)
           => \E j \in 1..Len(Emitted) :
                 /\ Emitted[j].id = CodeOrId(d, PrefDET)
                 /\ CodeOf(t, PrefT) \in Range(Emitted[j].techniques)

\* a strategy is emitted with its technique although its analytic's only
\* component reference was dropped
C6_Witness ==
  /\ Done
  /\ {AP1, DS1, AN1, R1} \subseteq Range(objs)
  /\ DC1 \notin Range(objs)
  /\ \E j \in 1..Len(Emitted) :
       /\ Emitted[j].id = DET0005
       /\ Emitted[j].techniques = <<T1001>>
       /\ Len(Emitted[j].analytics) = 1
       /\ Emitted[j].analytics[1].dataComponents = <<>>
       /\ Emitted[j].dataComponentRefs = <<>>

\* ---------------------------------------------------------------------- C7
\* an alphabetic prefix followed by digits
MatchesCodePattern(s) ==
  \E k \in 1..(Len(s) - 1) : IsAlpha(SubSeq(s, 1, k)) /\ IsDigit(SubSeq(s, k + 1, Len(s)))

\* pattern-matching ids first, then the others, each group in lexicographic order
SortedByCodePattern(recs) ==
  \A i \in 1..(Len(recs) - 1) :
    \/ MatchesCodePattern(recs[i].id) /\ ~MatchesCodePattern(recs[i + 1].id)
    \/ /\ MatchesCodePattern(recs[i].id) = MatchesCodePattern(recs[i + 1].id)
       /\ StrLeq(recs[i].id, recs[i + 1].id)

\* "DET" followed by digits
IsDetCode(s) == Len(s) > 3 /\ SubSeq(s, 1, 3) = <<68, 69, 84>> /\ \A i \in 4..Len(s) : s[i] \in 48..57

BagOfSeq(l) == [x \in Range(l) |-> Cardinality({i \in 1..Len(l) : l[i] = x})]

Permute(b, p) == [i \in 1..Len(b) |-> b[p[i]]]

\* every permutation of a short list; the transpositions and the reversal of a long one
Rearrangements(n) ==
  IF n <= MaxPermLen THEN Permutations(1..n)
  ELSE {[i \in 1..n |-> IF i = a THEN b ELSE IF i = b THEN a ELSE i] : a, b \in 1..n}
       \cup {[i \in 1..n |-> n + 1 - i]}

WithoutStrategyIds(techs) == [i \in 1..Len(techs) |-> [id |-> techs[i].id, tactics |-> techs[i].tactics]]

StrategyIdsUnder(techs, code) ==
  UNION {Range(techs[i].detectionStrategyIds) : i \in {n \in 1..Len(techs) : techs[n].id = code}}

C9_Original ==
  Done =>
    /\ \A i \in 1..Len(result.techniques) :
         /\ StrictlySorted(result.techniques[i].tactics)
         /\ StrictlySorted(result.techniques[i].detectionStrategyIds)
    /\ \A j \in 1..Len(Emitted) :
         /\ StrictlySorted(Emitted[j].techniques)
         /\ StrictlySorted(Emitted[j].dataComponentRefs)
         /\ \A k \in 1..Len(Emitted[j].analytics) : StrictlySorted(Emitted[j].analytics[k].dataComponents)

\* C9 as amended: Technique.detectionStrategyIds, DetectionStrategy.techniques,
\* DetectionStrategy.dataComponentRefs and Analytic.dataComponents are sorted
\* and free of duplicates; Technique.tactics is not: it holds the phase names
\* of the recognised kill chains in the order of the raw kill_chain_phases
\* list, duplicates kept.
C9_SortedReferences ==
  Done =>
    /\ \A i \in 1..Len(result.techniques) :
         /\ StrictlySorted(result.techniques[i].detectionStrategyIds)
         /\ LET kept == SelectSeq(SurvivingTechniques[i].kill_chain_phases,
                                  LAMBDA ph : /\ ph.kill_chain_name \in {"mitre-attack", "mitre-ics-attack"}
                                              /\ ph.phase_name # None)
            IN result.techniques[i].tactics = [k \in 1..Len(kept) |-> kept[k].phase_name]
    /\ \A j \in 1..Len(Emitted) :
         /\ StrictlySorted(Emitted[j].techniques)
         /\ StrictlySorted(Emitted[j].dataComponentRefs)
         /\ \A k \in 1..Len(Emitted[j].analytics) : StrictlySorted(Emitted[j].analytics[k].dataComponents)

\* repeated edges, repeated component references and repeated phases all occur
C9_Witness ==
  /\ Done
  /\ {R1, R2, R3} \subseteq Range(objs)
  /\ \E i \in 1..Len(result.techniques) :
       /\ Len(result.techniques[i].detectionStrategyIds) >= 2
       /\ ~StrictlySorted(result.techniques[i].tactics)
  /\ \E j \in 1..Len(Emitted) : Len(Emitted[j].techniques) >= 2
  /\ \E j \in 1..Len(Emitted) : \E k \in 1..Len(Emitted[j].analytics) :
       Len(Emitted[j].analytics[k].dataComponents) >= 2

\* --------------------------------------------------------------------- C10
\* C10 as stated: no analytic is nested under two emitted strategies, nor
\* twice under one.
C10_Original ==
  Done =>
    \A j1, j2 \in 1..Len(Emitted) :
      \A k1 \in 1..Len(Emitted[j1].analytics) : \A k2 \in 1..Len(Emitted[j2].analytics) :
        (j1 # j2 \/ k1 # k2) => Emitted[j1].analytics[k1].id # Emitted[j2].analytics[k2].id

\* C10 as amended: analytics appear in the output only nested under emitted
\* strategies, and every emitted strategy nests one Analytic record per entry
\* of its analytic-reference list that names an active, in-domain analytic,
\* in list order: an analytic named by several strategies, or several times by
\* one list, is nested once per reference.
C10_AnalyticNesting ==
  Done =>
    \A j \in 1..Len(Emitted) :
      \E d \in Range(Surviving("x-mitre-detection-strategy")) :
        /\ CodeOrId(d, PrefDET) = Emitted[j].id
        /\ LET named == SelectSeq(d.x_mitre_analytic_refs,
                                  LAMBDA a : \E x \in Range(Surviving("x-mitre-analytic")) : x.id = a)
           IN Ids(Emitted[j].analytics) =
                [k \in 1..Len(named) |->
                   CodeOrId(CHOOSE x \in Range(Surviving("x-mitre-analytic")) : x.id = named[k], PrefAN)]

\* one analytic is nested twice under one strategy and also under another
C10_Witness ==
  /\ Done
  /\ \E j1, j2 \in 1..Len(Emitted) :
       /\ j1 # j2
       /\ \E k1, k2 \in 1..Len(Emitted[j1].analytics) :
            k1 # k2 /\ Emitted[j1].analytics[k1].id = Emitted[j1].analytics[k2].id
       /\ \E k1 \in 1..Len(Emitted[j1].analytics) : \E k2 \in 1..Len(Emitted[j2].analytics) :
            Emitted[j1].analytics[k1].id = Emitted[j2].analytics[k2].id

\* --------------------------------------------------------------------- C11
\* the positions of the bundle holding a surviving object of one category that
\* carries a string internal identifier
Identified(type) ==
  {i \in 1..Len(objs) : objs[i].type = type /\ ActiveInDomain(objs[i]) /\ IsStr(objs[i].id)}

\* the positions holding a surviving attack-pattern with a T-prefixed code
Coded == {i \in 1..Len(objs) : /\ objs[i].type = "attack-pattern"
                               /\ ActiveInDomain(objs[i])
                               /\ Truthy(CodeOf(objs[i], PrefT))}

\* C11 as stated: an active, in-domain object that lacks its required
\* identifier (attack-pattern: a T-prefixed code; every other category: a
\* string internal identifier) produces no record in any output collection,
\* and every other object is still extracted: each collection holds exactly
\* one record per surviving object that carries its identifier, and every
\* emitted strategy and nested analytic stems from an object with a string id.
C11_Original ==
  Done =>
    /\ Len(result.tactics) = Cardinality(Identified("x-mitre-tactic"))
    /\ Len(result.assets) = Cardinality(Identified("x-mitre-asset"))
    /\ Len(result.dataComponents) = Cardinality(Identified("x-mitre-data-component"))
    /\ Len(result.techniques) = Cardinality(Coded)
    /\ Len(Emitted) <= Cardinality(Identified("x-mitre-detection-strategy"))
    /\ \A j \in 1..Len(Emitted) : \A k \in 1..Len(Emitted[j].analytics) :
         \E i \in Identified("x-mitre-analytic") :
           CodeOrId(objs[i], PrefAN) = Emitted[j].analytics[k].id

\* --------------------------------------------------------------------- C12
\* the fetched document has one of the two recognized shapes
Recognized == (bundle.kind = "dict" /\ bundle.has_objects) \/ bundle.kind = "list"

\* C12 as stated: for a bundle of a recognized shape, whatever the elements
\* of its list are, the extraction raises no error to the caller: the run is
\* never in the error state.
C12_Original == Recognized => pc # "error"

\* --------------------------------------------------------------------- C13
FetchFailed == raised = "RequestException"

Unrecognized == bundle.kind \in {"dict", "list", "other"} /\ ~Recognized

\* no pass has left anything behind
NothingExtracted ==
  /\ by_id = <<>>
  /\ FP = EmptyFirst
  /\ SP = EmptySecond
  /\ detection_strategies = <<>>
  /\ result = NoResult

\* C13: when the fetch fails or the fetched document has no recognized
\* shape, the run is at most at the shape check or in the error state, no
\* pass has been performed and the output file is as it was before the run;
\* the only step left at the shape check of such a document raises the
\* error, and in the error state no step is left.
C13_FatalAbort ==
  /\ (FetchFailed \/ Unrecognized) =>
        /\ pc \in {"parse", "error"}
        /\ NothingExtracted
        /\ artifact = Previous
  /\ (Unrecognized /\ pc = "parse") =>
        /\ ENABLED (StixObjects /\ pc' = "error" /\ raised' = "ValueError")
        /\ ~ENABLED (Next /\ pc' # "error")
  /\ pc = "error" => (raised # "" /\ ~ENABLED Next)

\* the run has ended in the error state on a document without recognized shape
C13_Witness == pc = "error" /\ Unrecognized /\ raised = "ValueError" /\ artifact = Previous

\* --------------------------------------------------------------------- C14
\* some object of the bundle carries the internal identifier and satisfies P
Indexed(id, P(_)) == \E x \in Range(objs) : x.id = id /\ P(x)

InSelectedDomain(x) == \E i \in 1..Len(x.x_mitre_domains) : x.x_mitre_domains[i] = MITRE_DOMAIN

IsDetects(r) ==
  /\ r.type = "relationship" /\ r.relationship_type = "detects"
  /\ IsStr(r.source_ref) /\ IsStr(r.target_ref)

\* shape (a): detection strategy -> attack pattern
ShapeA(r) == IsDetects(r) /\ StartsWith(r.source_ref, PrefDS) /\ StartsWith(r.target_ref, PrefAP)

\* shape (b): data component -> attack pattern
ShapeB(r) == IsDetects(r) /\ StartsWith(r.source_ref, PrefDC) /\ StartsWith(r.target_ref, PrefAP)

EndpointsInDomain(r) ==
  /\ Indexed(r.source_ref, InSelectedDomain)
  /\ Indexed(r.target_ref, InSelectedDomain)

\* the resolver's link map holds the edge
Linked(r) ==
  /\ DictHas(ds_to_tech_stix, r.source_ref)
  /\ r.target_ref \in Range(DictVal(ds_to_tech_stix, r.source_ref))

\* the targets of the edges leaving src that satisfy P, in bundle order
TargetsWhere(src, P(_)) ==
  LET es == SelectSeq(objs, LAMBDA r : P(r) /\ r.source_ref = src)
  IN [i \in 1..Len(es) |-> es[i].target_ref]

\* the link map holds the edges of the bundle that satisfy P and nothing else
LinkMapIs(P(_)) ==
  /\ {ds_to_tech_stix[i].k : i \in 1..Len(ds_to_tech_stix)}
       = {r.source_ref : r \in {e \in Range(objs) : P(e)}}
  /\ \A i \in 1..Len(ds_to_tech_stix) :
       ds_to_tech_stix[i].v = TargetsWhere(ds_to_tech_stix[i].k, P)

Resolved == pc \in {"build", "backfill", "return", "done"}

Retainable(r) ==
  /\ ShapeA(r)
  /\ Indexed(r.source_ref, LAMBDA d : d.type = "x-mitre-detection-strategy" /\ ActiveInDomain(d))
  /\ Indexed(r.target_ref, InSelectedDomain)

LinkedCodes(tid) ==
  {DsId(DictVal(ds_by_stix, r.source_ref), r.source_ref) :
     r \in {e \in Range(objs) : /\ EdgeRetained(e, by_id, FP)
                                /\ DictHas(technique_stix_to_tid, e.target_ref)
                                /\ DictVal(technique_stix_to_tid, e.target_ref) = tid}}

BackFilled == pc \in {"return", "done"}

\* C15 as stated: once the back-fill step has run, every technique record,
\* each of several records sharing one code included, lists the sorted set of
\* the codes of the strategies linked to its code by a retained edge (the
\* empty list exactly when there is none); before the back-fill step every
\* technique's detectionStrategyIds is empty.
C15_Original ==
  /\ ~BackFilled => \A i \in 1..Len(techniques) : techniques[i].detectionStrategyIds = <<>>
  /\ BackFilled =>
       \A i \in 1..Len(techniques) :
         techniques[i].detectionStrategyIds = SortedSet(LinkedCodes(techniques[i].id))

\* the same statement for the bundles in which no two techniques share a code
BackFill_DistinctCodes ==
  (\A i, j \in 1..Len(techniques) : i # j => techniques[i].id # techniques[j].id) => C15_Original

====
